---- MODULE Spec2Model ----
(***************************************************************************)
(* The natural-language task parser of src/routes/tasks.py                 *)
(* (parse_natural_language, get_next_weekday), as a state machine (Spec),  *)
(* and the task, project and tag routes of src/routes over the rows of     *)
(* the database, one action per request (StoreSpec).  get_next_weekday     *)
(* called on its own is WeekdaySpec; two requests that name the same new   *)
(* tag, served at the same time, are RaceSpec.                             *)
(*                                                                         *)
(* A Python str is a sequence of one-character strings.  A dict key that   *)
(* may be absent is an option: <<>> when absent, <<v>> when present.       *)
(* A date is a record [year, month, day].                                  *)
(***************************************************************************)
EXTENDS Integers, Sequences, FiniteSets, TLC

\* ------------------------------------------------------------------ bounds

\* An input text is the concatenation of at most MaxTokens tokens.
MaxTokens == 3

\* ------------------------------------------------------------- characters

None == <<>>
Some(x) == <<x>>

LowerOf ==
    [A |-> "a", B |-> "b", C |-> "c", D |-> "d", E |-> "e", F |-> "f",
     G |-> "g", H |-> "h", I |-> "i", J |-> "j", K |-> "k", L |-> "l",
     M |-> "m", N |-> "n", O |-> "o", P |-> "p", Q |-> "q", R |-> "r",
     S |-> "s", T |-> "t", U |-> "u", V |-> "v", W |-> "w", X |-> "x",
     Y |-> "y", Z |-> "z"]

LowerLetters == {LowerOf[c] : c \in DOMAIN LowerOf}

Digits == {"0", "1", "2", "3", "4", "5", "6", "7", "8", "9"}

\* str.lower() of one character (also what re.IGNORECASE compares)
lower(c) == IF c \in DOMAIN LowerOf THEN LowerOf[c] ELSE c

\* \w of the re module
IsWord(c) == lower(c) \in LowerLetters \/ c \in Digits \/ c = "_"

\* the characters str.strip() removes
IsSpace(c) == c \in {" ", "\t", "\n", "\r", "\f"}

RECURSIVE lstrip(_)
lstrip(s) == IF s # <<>> /\ IsSpace(Head(s)) THEN lstrip(Tail(s)) ELSE s

RECURSIVE rstrip(_)
rstrip(s) ==
    IF s # <<>> /\ IsSpace(s[Len(s)]) THEN rstrip(SubSeq(s, 1, Len(s) - 1)) ELSE s

\* str.strip()
strip(s) == rstrip(lstrip(s))

\* ------------------------------------------------------------ re patterns

\* \b at the gap before position i (1 .. Len(s)+1)
WordBoundary(s, i) ==
    LET before == i > 1 /\ IsWord(s[i - 1])
        after == i <= Len(s) /\ IsWord(s[i])
    IN  before # after

\* the literal w at position i of s, letter case ignored
LiteralAt(w, s, i) ==
    /\ i + Len(w) - 1 <= Len(s)
    /\ \A k \in 1..Len(w) : lower(s[i + k - 1]) = w[k]

\* \b(w)\b matches at position i
WholeWordAt(w, s, i) ==
    /\ LiteralAt(w, s, i)
    /\ WordBoundary(s, i)
    /\ WordBoundary(s, i + Len(w))

\* Length of the match of \b(alts[1]|alts[2]|...)\b at position i (the first
\* alternative that lets the whole pattern match), 0 when there is none.
MatchLen(alts, s, i) ==
    LET ks == {k \in 1..Len(alts) : WholeWordAt(alts[k], s, i)}
    IN  IF ks = {} THEN 0
        ELSE Len(alts[CHOOSE k \in ks : \A j \in ks : k <= j])

\* re.search(pattern, s, re.IGNORECASE): the leftmost match as
\* Some([start, len]), or None.
re_search(alts, s) ==
    LET is == {i \in 1..Len(s) : MatchLen(alts, s, i) > 0}
    IN  IF is = {} THEN None
        ELSE LET i == CHOOSE i \in is : \A j \in is : i <= j
             IN  Some([start |-> i, len |-> MatchLen(alts, s, i)])

\* match.group(1)
group1(s, m) == SubSeq(s, m[1].start, m[1].start + m[1].len - 1)

RECURSIVE re_sub_from(_, _, _)
re_sub_from(alts, s, i) ==
    IF i > Len(s) THEN <<>>
    ELSE LET n == MatchLen(alts, s, i)
         IN  IF n > 0 THEN re_sub_from(alts, s, i + n)
             ELSE <<s[i]>> \o re_sub_from(alts, s, i + 1)

\* re.sub(pattern, '', s, flags=re.IGNORECASE): every non-overlapping match
\* removed, scanning left to right
re_sub(alts, s) == re_sub_from(alts, s, 1)

\* last index of the run of word characters that holds position j
RECURSIVE WordEnd(_, _)
WordEnd(s, j) == IF j < Len(s) /\ IsWord(s[j + 1]) THEN WordEnd(s, j + 1) ELSE j

\* Length of the match of #\w+ at position i, 0 when there is none.
TagLen(s, i) ==
    IF s[i] = "#" /\ i < Len(s) /\ IsWord(s[i + 1]) THEN WordEnd(s, i + 1) - i + 1
    ELSE 0

RECURSIVE findall_from(_, _)
findall_from(s, i) ==
    IF i > Len(s) THEN <<>>
    ELSE LET n == TagLen(s, i)
         IN  IF n > 0 THEN <<SubSeq(s, i + 1, i + n - 1)>> \o findall_from(s, i + n)
             ELSE findall_from(s, i + 1)

\* re.findall(r'#(\w+)', s)
re_findall_tags(s) == findall_from(s, 1)

RECURSIVE sub_tags_from(_, _)
sub_tags_from(s, i) ==
    IF i > Len(s) THEN <<>>
    ELSE LET n == TagLen(s, i)
         IN  IF n > 0 THEN sub_tags_from(s, i + n)
             ELSE <<s[i]>> \o sub_tags_from(s, i + 1)

\* re.sub(r'#\w+', '', s)
re_sub_tags(s) == sub_tags_from(s, 1)

\* sub occurs in s at position i
OccursAt(sub, s, i) ==
    /\ i + Len(sub) - 1 <= Len(s)
    /\ \A k \in 1..Len(sub) : s[i + k - 1] = sub[k]

\* sub in s
contains(s, sub) == \E i \in 1..Len(s) : OccursAt(sub, s, i)

RECURSIVE replace_from(_, _, _)
replace_from(s, old, i) ==
    IF i > Len(s) THEN <<>>
    ELSE IF OccursAt(old, s, i) THEN replace_from(s, old, i + Len(old))
         ELSE <<s[i]>> \o replace_from(s, old, i + 1)

\* s.replace(old, ''): every non-overlapping occurrence removed, left to right
replace(s, old) == replace_from(s, old, 1)

\* --------------------------------------------------------------- datetime

IsLeap(y) == (y % 4 = 0 /\ y % 100 # 0) \/ y % 400 = 0

DaysInMonth(y, m) ==
    IF m = 2 THEN (IF IsLeap(y) THEN 29 ELSE 28)
    ELSE IF m \in {4, 6, 9, 11} THEN 30 ELSE 31

RECURSIVE DaysBeforeMonth(_, _)
DaysBeforeMonth(y, m) ==
    IF m = 1 THEN 0 ELSE DaysBeforeMonth(y, m - 1) + DaysInMonth(y, m - 1)

\* date.toordinal(): 0001-01-01 is day 1
toordinal(d) ==
    LET y == d.year - 1
    IN  y * 365 + (y \div 4) - (y \div 100) + (y \div 400)
        + DaysBeforeMonth(d.year, d.month) + d.day

\* date.weekday(): Monday is 0, Sunday is 6
weekday(d) == (toordinal(d) + 6) % 7

\* date.replace(day=n): Some(date), or None for the ValueError of a day the
\* month does not have
date_replace_day(d, n) ==
    IF 1 <= n /\ n <= DaysInMonth(d.year, d.month)
    THEN Some([d EXCEPT !.day = n])
    ELSE None

\* the calendar day after d
NextDay(d) ==
    IF d.day < DaysInMonth(d.year, d.month) THEN [d EXCEPT !.day = d.day + 1]
    ELSE IF d.month < 12 THEN [year |-> d.year, month |-> d.month + 1, day |-> 1]
    ELSE [year |-> d.year + 1, month |-> 1, day |-> 1]

\* datetime.now().date(): what one read of the clock can return when the
\* last known date is c (midnight may pass before the read)
now(c) == {c, NextDay(c)}

\* ------------------------------------------------------------- date rules

w_today == <<"t", "o", "d", "a", "y">>
w_tomorrow == <<"t", "o", "m", "o", "r", "r", "o", "w">>

\* get_next_weekday's list `days`
days ==
    <<<<"m", "o", "n", "d", "a", "y">>,
      <<"t", "u", "e", "s", "d", "a", "y">>,
      <<"w", "e", "d", "n", "e", "s", "d", "a", "y">>,
      <<"t", "h", "u", "r", "s", "d", "a", "y">>,
      <<"f", "r", "i", "d", "a", "y">>,
      <<"s", "a", "t", "u", "r", "d", "a", "y">>,
      <<"s", "u", "n", "d", "a", "y">>>>

\* days.index(day_name.lower())
days_index(day_name) ==
    LET n == [k \in 1..Len(day_name) |-> lower(day_name[k])]
    IN  (CHOOSE k \in 1..Len(days) : days[k] = n) - 1

\* The result of evaluating a date function: it raised, or it returned
\* `date`; `clock` is the date of its last read of the clock.
Raised(c) == [raised |-> TRUE, date |-> c, clock |-> c]
Returned(d, c) == [raised |-> FALSE, date |-> d, clock |-> c]

\* get_next_weekday(day_name), the clock last known to be at c
get_next_weekday(day_name, c) ==
    {LET today_weekday == weekday(today)
         target_weekday == days_index(day_name)
         diff == target_weekday - today_weekday
         days_ahead == IF diff <= 0 THEN diff + 7 ELSE diff
         r == date_replace_day(today, today.day + days_ahead)
     IN  IF r = None THEN Raised(today) ELSE Returned(r[1], today)
     : today \in now(c)}

\* lambda: datetime.now().date()
lambda_today(c) == {Returned(d, d) : d \in now(c)}

\* lambda: datetime.now().date().replace(day=datetime.now().day + 1)
\* reads the clock twice: d1 is the date replaced, d2 gives the day number
lambda_tomorrow(c) ==
    UNION {{LET r == date_replace_day(d1, d2.day + 1)
            IN  IF r = None THEN [Raised(d2) EXCEPT !.date = d1]
                ELSE Returned(r[1], d2)
            : d2 \in now(d1)} : d1 \in now(c)}

\* date_patterns: the alternatives of each \b(...)\b pattern, its function and
\* the number of parameters the function requires
date_patterns ==
    <<[pattern |-> <<w_today>>, func |-> "today", params |-> 0],
      [pattern |-> <<w_tomorrow>>, func |-> "tomorrow", params |-> 0],
      [pattern |-> days, func |-> "weekday", params |-> 1]>>

\* callable(date_func): every entry of date_patterns is a lambda
callable(rule) == TRUE

\* Calling rule's function with the arguments args: a TypeError when the
\* number of arguments is not the number of its parameters.
invoke(rule, args, c) ==
    IF Len(args) # rule.params THEN {Raised(c)}
    ELSE IF rule.func = "today" THEN lambda_today(c)
    ELSE IF rule.func = "tomorrow" THEN lambda_tomorrow(c)
    ELSE get_next_weekday(args[1], c)

\* date_func() if callable(date_func) else date_func(match)
date_value(rule, s, m, c) ==
    IF callable(rule) THEN invoke(rule, <<>>, c)
    ELSE invoke(rule, <<group1(s, m)>>, c)

\* ------------------------------------------------ parse_natural_language

\* new_result without the strip()
new_result_unstripped(s) ==
    [title |-> s, due_date |-> None, tags |-> None, priority |-> None]

\* result = {'title': text.strip()}
new_result(s) ==
    [title |-> strip(s), due_date |-> None, tags |-> None, priority |-> None]

\* where the for loop goes after the iteration of rule k: to the next rule,
\* or past the loop
loop_next(k) ==
    IF k < Len(date_patterns) THEN [pc |-> "dates", i |-> k + 1]
    ELSE [pc |-> "tags", i |-> k]

\* break
loop_break(k) == [pc |-> "tags", i |-> k]

\* the handler re-raising what it caught
except_reraise(k) == [pc |-> "raised", i |-> k]

\* the handler leaving the loop
except_break(k) == loop_break(k)

\* except: pass
except_pass(k) == loop_next(k)

\* the two assignments of the try block, the date computed
apply_date(res, rule, s, d) ==
    [res EXCEPT !.due_date = Some(d), !.title = strip(re_sub(rule.pattern, s))]

\* the tag block taking the first match only
parse_tags_first_only(s, res) ==
    LET tag_matches == re_findall_tags(s)
    IN  IF tag_matches # <<>>
        THEN [res EXCEPT !.tags = Some(<<tag_matches[1]>>),
                         !.title = strip(re_sub_tags(res.title))]
        ELSE res

\* # Parse tags
parse_tags(s, res) ==
    LET tag_matches == re_findall_tags(s)
    IN  IF tag_matches # <<>>
        THEN [res EXCEPT !.tags = Some(tag_matches),
                         !.title = strip(re_sub_tags(res.title))]
        ELSE res

\* the priority block testing '!!' before '!!!'
parse_priority_double_first(s, res) ==
    IF contains(s, <<"!", "!">>)
    THEN [res EXCEPT !.priority = Some(2),
                     !.title = strip(replace(res.title, <<"!", "!">>))]
    ELSE IF contains(s, <<"!", "!", "!">>)
    THEN [res EXCEPT !.priority = Some(3),
                     !.title = strip(replace(res.title, <<"!", "!", "!">>))]
    ELSE res

\* # Parse priority
parse_priority(s, res) ==
    IF contains(s, <<"!", "!", "!">>)
    THEN [res EXCEPT !.priority = Some(3),
                     !.title = strip(replace(res.title, <<"!", "!", "!">>))]
    ELSE IF contains(s, <<"!", "!">>)
    THEN [res EXCEPT !.priority = Some(2),
                     !.title = strip(replace(res.title, <<"!", "!">>))]
    ELSE res

\* ------------------------------------------------------------------ inputs

\* The pieces input texts are made of.
Tokens ==
    {w_today, w_tomorrow, <<"M", "o", "n", "d", "a", "y">>, <<"a">>, <<" ">>,
     <<"#">>, <<"!">>, <<"!", "!">>, <<"#", "B">>, <<"!", "!", "a">>}

RECURSIVE Texts(_)
Texts(n) ==
    IF n = 0 THEN {<<>>}
    ELSE Texts(n - 1) \cup {t \o k : t \in Texts(n - 1), k \in Tokens}

\* The dates of the calls: a Friday inside a month, the last day of a month
\* and the last day of a year.
RefDates ==
    {[year |-> 2024, month |-> 3, day |-> 15],
     [year |-> 2024, month |-> 1, day |-> 31],
     [year |-> 2024, month |-> 12, day |-> 31]}

\* parse_natural_language is called at most MaxCalls times in a row, each
\* call after the first on the title the call before returned.
MaxCalls == 2

\* ----------------------------------------------------------- state machine

VARIABLES
    text,            \* the argument of the running call
    reference_date,  \* the date when the call was made
    clock,           \* the current date
    pc,              \* "dates", "tags", "priority", "done", "raised"
    i,               \* the rule of date_patterns the for loop is at
    result,          \* the dict result
    tried,           \* the rules the loop has searched for, in order
    failed,          \* the rules whose date function raised
    applied,         \* the rule that set due_date, 0 when none did
    call,            \* the number of the running call
    prev,            \* the call before: its text, result and applied rule
    tasks,           \* the rows of Task, by id; a row holds its tag links
    projects,        \* the rows of Project, by id
    tags,            \* the rows of Tag, by id
    response,        \* the answer to the last request
    requests,        \* the number of requests answered
    request,         \* the last request: its route, caller, id and body
    before,          \* the database before the last request
    inflight         \* the requests being served at the same time, by worker

\* the committed content of the database
store == <<tasks, projects, tags>>

\* what the routes keep of the requests they served
served == <<response, requests, request, before, inflight>>

vars ==
    <<text, reference_date, clock, pc, i, result, tried, failed, applied,
      call, prev, tasks, projects, tags, response, requests, request,
      before, inflight>>

Init ==
    /\ text \in Texts(MaxTokens)
    /\ reference_date \in RefDates
    /\ clock = reference_date
    /\ pc = "dates"
    /\ i = 1
    /\ result = new_result(text)
    /\ tried = <<>>
    /\ failed = {}
    /\ applied = 0
    /\ call = 1
    /\ prev = None
    /\ tasks = <<>>
    /\ projects = <<>>
    /\ tags = <<>>
    /\ response = None
    /\ requests = 0
    /\ request = None
    /\ before = None
    /\ inflight = <<>>

\* One iteration of `for pattern, date_func in date_patterns`.
DateRule ==
    /\ pc = "dates"
    /\ tried' = Append(tried, i)
    /\ LET rule == date_patterns[i]
           match == re_search(rule.pattern, text)
       IN  IF match = None
           THEN /\ pc' = loop_next(i).pc
                /\ i' = loop_next(i).i
                /\ UNCHANGED <<result, clock, failed, applied>>
           ELSE \E out \in date_value(rule, text, match, clock) :
                    /\ clock' = out.clock
                    /\ IF out.raised
                       THEN /\ pc' = except_pass(i).pc
                            /\ i' = except_pass(i).i
                            /\ failed' = failed \cup {i}
                            /\ UNCHANGED <<result, applied>>
                       ELSE /\ result' = apply_date(result, rule, text, out.date)
                            /\ applied' = i
                            /\ pc' = loop_break(i).pc
                            /\ i' = loop_break(i).i
                            /\ UNCHANGED failed
    /\ UNCHANGED <<text, reference_date, call, prev, store, served>>

\* The `# Parse tags` block.
ParseTags ==
    /\ pc = "tags"
    /\ result' = parse_tags(text, result)
    /\ pc' = "priority"
    /\ UNCHANGED <<text, reference_date, clock, i, tried, failed, applied, call, prev, store, served>>

\* The `# Parse priority` block and `return result`.
ParsePriority ==
    /\ pc = "priority"
    /\ result' = parse_priority(text, result)
    /\ pc' = "done"
    /\ UNCHANGED <<text, reference_date, clock, i, tried, failed, applied, call, prev, store, served>>

\* The caller parses the title it got back.
Reparse ==
    /\ pc = "done"
    /\ call < MaxCalls
    /\ prev' = Some([text |-> text, result |-> result, applied |-> applied])
    /\ text' = result.title
    /\ reference_date' = clock
    /\ result' = new_result(result.title)
    /\ pc' = "dates"
    /\ i' = 1
    /\ tried' = <<>>
    /\ failed' = {}
    /\ applied' = 0
    /\ call' = call + 1
    /\ UNCHANGED <<clock, store, served>>

Next == DateRule \/ ParseTags \/ ParsePriority \/ Reparse

Spec == Init /\ [][Next]_vars

\* ------------------------------------------------- vocabulary of the claims

DoubleBang == <<"!", "!">>
TripleBang == <<"!", "!", "!">>

\* s has no leading and no trailing whitespace
Trimmed(s) == s = <<>> \/ (~IsSpace(s[1]) /\ ~IsSpace(s[Len(s)]))

\* the phrase of date rule k stands in s as a whole word
HasPhrase(k, s) ==
    \E n \in 1..Len(s) : \E a \in 1..Len(date_patterns[k].pattern) :
        WholeWordAt(date_patterns[k].pattern[a], s, n)

\* the date rules whose phrase stands in s
PhraseRules(s) == {k \in 1..Len(date_patterns) : HasPhrase(k, s)}

\* the positions of s where a '#' is followed by a word character
TagStarts(s) == {n \in 1..Len(s) : s[n] = "#" /\ n < Len(s) /\ IsWord(s[n + 1])}

\* the word characters that follow the '#' at position n, up to the first
\* character that is none
TagWordAt(s, n) ==
    LET e == CHOOSE j \in (n + 1)..Len(s) :
                 /\ \A k \in (n + 1)..j : IsWord(s[k])
                 /\ j = Len(s) \/ ~IsWord(s[j + 1])
    IN  SubSeq(s, n + 1, e)

RECURSIVE WordsOfStarts(_, _)
WordsOfStarts(s, starts) ==
    IF starts = {} THEN <<>>
    ELSE LET n == CHOOSE x \in starts : \A y \in starts : x <= y
         IN  <<TagWordAt(s, n)>> \o WordsOfStarts(s, starts \ {n})

\* the hashtag words of s, left to right
HashtagWords(s) == WordsOfStarts(s, TagStarts(s))

RECURSIVE AddDays(_, _)
AddDays(d, n) == IF n = 0 THEN d ELSE AddDays(NextDay(d), n - 1)

\* the first date strictly after d that falls on weekday index wd
NextOccurrence(d, wd) ==
    AddDays(d, CHOOSE n \in 1..7 : weekday(AddDays(d, n)) = wd)

\* the title as the date stage left it, rule `applied` having been applied
AfterDates ==
    IF applied = 0 THEN strip(text)
    ELSE strip(re_sub(date_patterns[applied].pattern, text))

\* the priority that the exclamation marks of s ask for
MarkedPriority(s) ==
    IF contains(s, TripleBang) THEN Some(3)
    ELSE IF contains(s, DoubleBang) THEN Some(2) ELSE None

\* the tags that the hashtags of s ask for
MarkedTags(s) == IF TagStarts(s) = {} THEN None ELSE Some(HashtagWords(s))

\* ------------------------------------------------------------------ claims

\* C1: for every input string parse_natural_language returns without
\* raising, and the title it returns has no leading or trailing whitespace.
C1_ReturnsTrimmedTitle ==
    /\ pc \in {"dates", "tags", "priority", "done"}
    /\ pc = "done" => Trimmed(result.title)

\* C1's case: a call on a text with leading whitespace, one of whose date
\* functions raised, has returned.
C1_Witness ==
    /\ pc = "done"
    /\ failed # {}
    /\ text # <<>> /\ IsSpace(text[1])
    /\ result.title # <<>>

\* C2: a text with a weekday name as a whole word and neither 'today' nor
\* 'tomorrow' gets as due_date the next occurrence of that weekday strictly
\* after the reference date, and the weekday word is removed from the title
\* (the date not changing during the call).
C2_WeekdayGivesNextOccurrence ==
    (/\ pc = "done"
     /\ clock = reference_date
     /\ PhraseRules(text) = {3})
    => /\ result.due_date =
            Some(NextOccurrence(reference_date,
                     days_index(group1(text, re_search(days, text)))))
       /\ ~HasPhrase(3, result.title)

\* C3: a text with 'tomorrow' as a whole word and without 'today' gets as
\* due_date the calendar day after the reference date, also on the last day
\* of a month or year, and 'tomorrow' is removed from the title (the date not
\* changing during the call).
C3_TomorrowGivesNextDay ==
    (/\ pc = "done"
     /\ clock = reference_date
     /\ HasPhrase(2, text)
     /\ ~HasPhrase(1, text))
    => /\ result.due_date = Some(NextDay(reference_date))
       /\ ~HasPhrase(2, result.title)

\* C4: when a date rule's pattern matches and computing its date fails, the
\* call goes on as if the rule had not matched: the rule sets no due_date,
\* its phrase is still in the title the date stage leaves, the rules after it
\* are tried in order, nothing is raised, and tags and priority are extracted
\* as for any text.
C4_FailedRuleIsSkipped ==
    \A k \in failed :
        /\ pc # "raised"
        /\ applied # k
        /\ applied = 0 => result.due_date = None
        /\ tried = [n \in 1..Len(tried) |-> n]
        /\ pc # "dates" => \A j \in (k + 1)..Len(date_patterns) :
                               \E n \in 1..Len(tried) : tried[n] = j
        /\ pc = "tags" => /\ HasPhrase(k, result.title)
                          /\ applied = 0 => result.title = strip(text)
        /\ pc = "done" => /\ result.tags = MarkedTags(text)
                          /\ result.priority = MarkedPriority(text)

\* C4's case: the 'tomorrow' rule matched and its date function raised, and
\* the call has returned with tags and a priority.
C4_Witness ==
    /\ pc = "done"
    /\ 2 \in failed
    /\ result.tags # None
    /\ result.priority # None

\* C5: when the text holds phrases of more than one date rule, the rule
\* applied is the first of them in the order today, tomorrow, weekday,
\* wherever the phrases stand, one due_date is set, and the date stage leaves
\* the phrases of the other rules in the title; 'today tomorrow' gives the
\* reference date and the title 'tomorrow' (the date not changing during the
\* call).
C5_FirstRuleInOrderWins ==
    (/\ clock = reference_date
     /\ Cardinality(PhraseRules(text)) > 1)
    => /\ pc = "tags"
          => /\ applied \in PhraseRules(text)
             /\ \A k \in PhraseRules(text) : applied <= k
             /\ result.due_date # None
             /\ \A k \in PhraseRules(text) \ {applied} :
                    HasPhrase(k, result.title)
       /\ (pc = "done" /\ text = w_today \o <<" ">> \o w_tomorrow)
          => /\ result.due_date = Some(reference_date)
             /\ result.title = w_tomorrow

\* C6: if '!!!' occurs in the text the priority is 3 and the title holds no
\* '!!!'; otherwise, if '!!' occurs, the priority is 2 and the title holds no
\* '!!'; otherwise there is no priority.  A priority is 2 or 3.
C6_PriorityOrderedExclusive ==
    pc = "done"
    => /\ result.priority \in {None, Some(2), Some(3)}
       /\ IF contains(text, TripleBang)
          THEN result.priority = Some(3) /\ ~contains(result.title, TripleBang)
          ELSE IF contains(text, DoubleBang)
          THEN result.priority = Some(2) /\ ~contains(result.title, DoubleBang)
          ELSE result.priority = None

\* C6's case: a call on a text with '!!!' and other characters has returned
\* with priority 3.
C6_Witness ==
    /\ pc = "done"
    /\ contains(text, TripleBang)
    /\ result.priority = Some(3)
    /\ result.title # <<>>

\* C7: tags is the sequence of the words of every '#'+word match of the
\* text, left to right, duplicates and letter case kept, the '#' dropped, and
\* the tag stage leaves no hashtag in the title; without a match tags is
\* absent and the tag stage does not change the title.
C7_TagsExhaustiveInOrder ==
    /\ pc \in {"priority", "done"} => result.tags = MarkedTags(text)
    /\ pc = "priority"
           => IF TagStarts(text) = {} THEN result.title = AfterDates
              ELSE TagStarts(result.title) = {}

\* C7's case: the tag stage has run on a text with the same hashtag twice.
C7_Witness ==
    /\ pc = "priority"
    /\ result.tags # None
    /\ Len(result.tags[1]) = 2
    /\ result.tags[1][1] = result.tags[1][2]

\* C8: the returned title holds no marker of a field that was extracted: no
\* '#'+word character if tags is present, no '!!!' if priority is 3, no '!!'
\* if priority is 2, not the applied rule's phrase as a whole word if
\* due_date is present.
C8_NoMarkerOfExtractedField ==
    pc = "done"
    => /\ result.tags # None => TagStarts(result.title) = {}
       /\ result.priority = Some(3) => ~contains(result.title, TripleBang)
       /\ result.priority = Some(2) => ~contains(result.title, DoubleBang)
       /\ result.due_date # None => ~HasPhrase(applied, result.title)

\* C9: parsing the title a call returned extracts no further field: no
\* priority, no tags, and a due_date only from a date phrase of another rule
\* than the one the first call applied; when it extracts nothing it returns
\* the same title.
C9_ReparseIsFixedPoint ==
    (pc = "done" /\ call > 1)
    => /\ result.priority = None
       /\ result.tags = None
       /\ result.due_date = None => result.title = text
       /\ result.due_date # None
              => prev[1].applied # 0 /\ applied # prev[1].applied

\* C10: a text with no date phrase, no hashtag and no '!!' gives only the
\* title, the text with surrounding whitespace trimmed; due_date, priority
\* and tags are present only if their marker stands in the text.
C10_PlainTextGivesOnlyTitle ==
    pc = "done"
    => /\ (PhraseRules(text) = {} /\ TagStarts(text) = {}
             /\ ~contains(text, DoubleBang))
          => result = [title |-> strip(text), due_date |-> None,
                       tags |-> None, priority |-> None]
       /\ result.due_date # None => PhraseRules(text) # {}
       /\ result.tags # None => TagStarts(text) # {}
       /\ result.priority # None => contains(text, DoubleBang)

\* C10's case: a call on a text without any marker and with whitespace
\* around it has returned.
C10_Witness ==
    /\ pc = "done"
    /\ PhraseRules(text) = {} /\ TagStarts(text) = {}
    /\ ~contains(text, DoubleBang)
    /\ text # strip(text)
    /\ result.title # <<>>

\* the dates the clock showed during the running call
CallDates ==
    {d \in {AddDays(reference_date, n) : n \in 0..6} :
        toordinal(d) <= toordinal(clock)}

\* what the date function of rule k gives when every read of the clock gives
\* d: a date, or None when it raises
AtOneDate(k, d) ==
    IF k = 1 THEN Some(d)
    ELSE IF k = 2 THEN date_replace_day(d, d.day + 1)
    ELSE None

\* C11: the result of a call is decided by the text and one date: there is
\* one date d, among those the clock showed during the call, such that every
\* date rule the call evaluated gave what it gives when every read of the
\* clock returns d (the rule applied its date at d, a rule that failed fails
\* at d).
C11_OneReferenceDate ==
    pc = "done"
    => \E d \in CallDates :
          /\ applied # 0 => result.due_date = AtOneDate(applied, d)
          /\ \A k \in failed : AtOneDate(k, d) = None

\* ============================================================ the routes

\* ------------------------------------------------- a whole call of the parser

\* The for loop over date_patterns from rule k on, the clock last known to be
\* at c: the results it can leave, with where it leaves (past the loop, or
\* raising) and the date of its last read of the clock.
RECURSIVE run_dates(_, _, _, _)
run_dates(s, k, res, c) ==
    LET rule == date_patterns[k]
        match == re_search(rule.pattern, s)
        go(to, r, c2) ==
            IF to.pc = "dates" THEN run_dates(s, to.i, r, c2)
            ELSE {[pc |-> to.pc, result |-> r, clock |-> c2]}
    IN  IF match = None THEN go(loop_next(k), res, c)
        ELSE UNION {IF out.raised THEN go(except_pass(k), res, out.clock)
                    ELSE go(loop_break(k), apply_date(res, rule, s, out.date),
                            out.clock)
                    : out \in date_value(rule, s, match, c)}

\* parse_natural_language(text), the clock last known to be at c: the
\* outcomes of the call, each the dict returned (or raised) and the date of
\* the last read of the clock
parse_natural_language(s, c) ==
    {[raised |-> o.pc = "raised",
      result |-> parse_priority(s, parse_tags(s, o.result)),
      clock |-> o.clock] : o \in run_dates(s, 1, new_result(s), c)}

\* --------------------------------------------------------------- requests

\* the authenticated users (get_jwt_identity)
Users == {1, 2}

\* the most rows the Task, Tag and Project tables hold
MaxTasks == 2
MaxTags == 2
MaxProjects == 2

\* the date of the requests
StoreDate == [year |-> 2024, month |-> 3, day |-> 15]

\* strings sent in the request bodies
s_a == <<"a">>
s_c == <<"c">>
s_d == <<"d">>
s_B == <<"B">>
s_nlp == <<"a", " ", "t", "o", "d", "a", "y", " ", "#", "B", " ", "!", "!">>
s_B_tag == <<"#", "B">>
s_date == <<"2", "0", "2", "5", "-", "0", "6", "-", "0", "1">>
s_red == <<"#", "F", "F", "0", "0", "0", "0">>

\* the JSON value [''], a list and no string: a query that is given it for
\* a name raises when the parameter is bound
l_empty == <<"">>

\* v is a string, which a query can bind
bindable(v) == \A k \in 1..Len(v) : v[k] # ""

\* the default colours of the routes
TagDefaultColor == <<"#", "6", "B", "7", "2", "8", "0">>
ProjectDefaultColor == <<"#", "3", "B", "8", "2", "F", "6">>

DigitValue ==
    [c \in Digits |-> CHOOSE n \in 0..9 : <<"0", "1", "2", "3", "4", "5", "6", "7", "8", "9">>[n + 1] = c]

\* the number written by the digits of s, None when s is not digits only
RECURSIVE int(_)
int(s) ==
    IF s = <<>> THEN None
    ELSE IF \E k \in 1..Len(s) : s[k] \notin Digits THEN None
    ELSE IF Len(s) = 1 THEN Some(DigitValue[s[1]])
    ELSE Some(10 * int(SubSeq(s, 1, Len(s) - 1))[1] + DigitValue[s[Len(s)]])

\* str.replace('Z', '+00:00')
RECURSIVE replace_Z(_)
replace_Z(s) ==
    IF s = <<>> THEN <<>>
    ELSE IF Head(s) = "Z" THEN <<"+", "0", "0", ":", "0", "0">> \o replace_Z(Tail(s))
    ELSE <<Head(s)>> \o replace_Z(Tail(s))

\* datetime.fromisoformat(s) for a string without a time part: the date
\* written as YYYY-MM-DD, None (ValueError) for anything else
fromisoformat(s) ==
    IF Len(s) # 10 \/ s[5] # "-" \/ s[8] # "-" THEN None
    ELSE LET y == int(SubSeq(s, 1, 4))
             m == int(SubSeq(s, 6, 7))
             d == int(SubSeq(s, 9, 10))
         IN  IF y = None \/ m = None \/ d = None THEN None
             ELSE IF y[1] < 1 \/ m[1] \notin 1..12 THEN None
             ELSE IF d[1] \notin 1..DaysInMonth(y[1], m[1]) THEN None
             ELSE Some([year |-> y[1], month |-> m[1], day |-> d[1]])

\* The JSON body of a request is a record of its possible keys, the value of
\* a key the request does not have being None. `key in data`:
has(data, key) == data[key] # None

\* data[key]
get(data, key) == data[key][1]

\* data.get(key, default)
get_or(data, key, default) == IF has(data, key) THEN get(data, key) ELSE default

\* data.get(key) taken for true whenever the key is there
truthy_present(data, key) == has(data, key)

\* the truth value of data.get(key), the value a string or a list
truthy(data, key) == has(data, key) /\ get(data, key) # <<>>

\* A due_date is a string ([str |-> the characters]) or a date object
\* ([date |-> the date]). isinstance(v, str):
isinstance_str(v) == "str" \in DOMAIN v

\* the truth value of a due_date
truthy_date(v) == IF isinstance_str(v) THEN v.str # <<>> ELSE TRUE

\* a body with none of the keys of a task
NoTaskKeys ==
    [title |-> None, use_nlp |-> None, description |-> None,
     completed |-> None, priority |-> None, project_id |-> None,
     due_date |-> None, tags |-> None]

\* a body with a value for every key of a task but its title
AllTaskKeys ==
    [NoTaskKeys EXCEPT !.description = Some(s_d), !.priority = Some(3),
                       !.project_id = Some(1),
                       !.due_date = Some([str |-> s_date]),
                       !.tags = Some(<<s_c, s_B>>)]

\* the bodies sent to create_task: without a title, with a plain title and
\* one more key, with a tag name that is no string, with a title of one
\* hashtag to parse, and with or without use_nlp and the caller's own values
CreateTaskBodies ==
    {NoTaskKeys,
     [AllTaskKeys EXCEPT !.title = Some(<<>>)],
     [NoTaskKeys EXCEPT !.title = Some(s_a), !.project_id = Some(1)],
     [NoTaskKeys EXCEPT !.title = Some(s_a), !.due_date = Some([str |-> s_a])],
     [NoTaskKeys EXCEPT !.title = Some(s_a), !.tags = Some(<<s_c, s_c>>)],
     [NoTaskKeys EXCEPT !.title = Some(s_a), !.tags = Some(<<s_c, l_empty>>)],
     [NoTaskKeys EXCEPT !.title = Some(s_B_tag), !.use_nlp = Some(TRUE)]}
    \cup {[b EXCEPT !.title = Some(t), !.use_nlp = n] :
             b \in {NoTaskKeys, AllTaskKeys}, t \in {s_a, s_nlp},
             n \in {None, Some(TRUE)}}

\* the bodies sent to update_task: no key, some keys, every key
UpdateTaskBodies ==
    {NoTaskKeys,
     [AllTaskKeys EXCEPT !.title = Some(s_c), !.completed = Some(TRUE)],
     [NoTaskKeys EXCEPT !.title = Some(s_c)],
     [NoTaskKeys EXCEPT !.description = Some(s_d), !.completed = Some(TRUE)],
     [NoTaskKeys EXCEPT !.priority = Some(3), !.project_id = Some(1)],
     [NoTaskKeys EXCEPT !.due_date = Some([str |-> s_date])],
     [NoTaskKeys EXCEPT !.due_date = Some([str |-> <<>>]), !.tags = Some(<<>>)],
     [NoTaskKeys EXCEPT !.title = Some(s_c), !.due_date = Some([str |-> s_a])],
     [NoTaskKeys EXCEPT !.tags = Some(<<s_B>>)],
     [NoTaskKeys EXCEPT !.tags = Some(<<s_c, s_c>>)]}

\* a body with none of the keys of a project
NoProjectKeys == [name |-> None, description |-> None, color |-> None]

\* the bodies sent to create_project and update_project
ProjectBodies ==
    {NoProjectKeys,
     [NoProjectKeys EXCEPT !.name = Some(<<>>), !.color = Some(s_red)],
     [NoProjectKeys EXCEPT !.name = Some(s_a)],
     [NoProjectKeys EXCEPT !.name = Some(s_c), !.description = Some(s_d)],
     [NoProjectKeys EXCEPT !.color = Some(s_red)],
     [name |-> Some(s_c), description |-> Some(s_d), color |-> Some(s_red)]}

\* a body with none of the keys of a tag
NoTagKeys == [name |-> None, color |-> None]

\* the bodies sent to create_tag and update_tag
TagBodies ==
    {NoTagKeys,
     [NoTagKeys EXCEPT !.name = Some(<<>>), !.color = Some(s_red)],
     [NoTagKeys EXCEPT !.name = Some(s_B)],
     [NoTagKeys EXCEPT !.name = Some(s_c)],
     [NoTagKeys EXCEPT !.color = Some(s_red)],
     [name |-> Some(s_c), color |-> Some(s_red)]}

\* the bodies sent to parse_task
ParseBodies == [text : {None, Some(<<>>), Some(s_a), Some(s_nlp)}]

\* `not data`: the body is missing or an empty object
empty(data) == \A key \in DOMAIN data : ~has(data, key)

\* the ids a request may name
TaskIds == 1..MaxTasks
ProjectIds == 1..MaxProjects
TagIds == 1..MaxTags

\* ------------------------------------------------------------ the database

\* the id the database gives to a new row of a table
new_id(table) ==
    IF DOMAIN table = {} THEN 1
    ELSE (CHOOSE n \in DOMAIN table : \A m \in DOMAIN table : m <= n) + 1

\* the table with row r added under id n
insert(table, n, r) == [x \in DOMAIN table \cup {n} |-> IF x = n THEN r ELSE table[x]]

\* the table without the row of id n
delete(table, n) == [x \in DOMAIN table \ {n} |-> table[x]]

\* Model.query.filter_by(id=n, user_id=user_id).first(): the id, or None
first_by_id(table, n, user_id) ==
    IF n \in DOMAIN table /\ table[n].user_id = user_id THEN Some(n) ELSE None

\* the query of a tag by name finding nothing
first_tag_missing(tbl, name, user_id) == None

\* Tag.query.filter_by(name=name, user_id=user_id).first(): the id of the
\* first such row, or None
first_tag(tbl, name, user_id) ==
    LET found == {n \in DOMAIN tbl : tbl[n].name = name /\ tbl[n].user_id = user_id}
    IN  IF found = {} THEN None
        ELSE Some(CHOOSE n \in found : \A m \in found : n <= m)

\* the query without its filter: the rows of every user
all_of_anyone(table, user_id) == DOMAIN table

\* Model.query.filter_by(user_id=user_id).all(): the ids of the rows
all_of(table, user_id) == {n \in DOMAIN table : table[n].user_id = user_id}

\* the answer of a route
Response(status, error) ==
    Some([status |-> status, error |-> error, id |-> 0, ids |-> {},
          parsed |-> None])

\* Tag(name=name, user_id=user_id), its colour the default of the model
Tag(name, color, user_id) == [name |-> name, color |-> color, user_id |-> user_id]

\* Project(name=..., description=..., color=..., user_id=...)
Project(name, description, color, user_id) ==
    [name |-> name, description |-> description, color |-> color,
     user_id |-> user_id]

\* Task(title=..., description=..., priority=..., project_id=...,
\* user_id=...): not completed, without due date and without tags
Task(title, description, priority, project_id, user_id) ==
    [title |-> title, description |-> description, completed |-> FALSE,
     priority |-> priority, project_id |-> project_id, due_date |-> None,
     user_id |-> user_id, tags |-> {}]

\* ------------------------------------------------------------- tasks.py

\* data.update(parsed), the values of the caller winning
data_update_keep(data, parsed) ==
    [data EXCEPT !.title = Some(parsed.title),
                 !.due_date = IF @ = None /\ parsed.due_date # None
                              THEN Some([date |-> parsed.due_date[1]]) ELSE @,
                 !.tags = IF @ = None THEN parsed.tags ELSE @,
                 !.priority = IF @ = None THEN parsed.priority ELSE @]

\* data.update(parsed): every key of parsed replaces the caller's
data_update(data, parsed) ==
    [data EXCEPT !.title = Some(parsed.title),
                 !.due_date = IF parsed.due_date # None
                              THEN Some([date |-> parsed.due_date[1]]) ELSE @,
                 !.tags = IF parsed.tags # None THEN parsed.tags ELSE @,
                 !.priority = IF parsed.priority # None THEN parsed.priority ELSE @]

\* the due date a truthy data['due_date'] stands for: None when
\* fromisoformat raises
due_date_value(v) ==
    IF isinstance_str(v) THEN fromisoformat(replace_Z(v.str)) ELSE Some(v.date)

\* the loop `for tag_name in data['tags']` that gives every name a tag row
\* of some user, a new one for every name
RECURSIVE attach_tags_always_new(_, _, _, _)
attach_tags_always_new(tbl, names, user_id, linked) ==
    IF names = <<>> THEN [tags |-> tbl, linked |-> linked, raised |-> FALSE]
    ELSE IF ~bindable(Head(names))
    THEN [tags |-> tbl, linked |-> linked, raised |-> TRUE]
    ELSE LET n == new_id(tbl)
         IN  attach_tags_always_new(
                 insert(tbl, n, Tag(Head(names), TagDefaultColor, user_id)),
                 Tail(names), user_id, linked \cup {n})

\* the loop `for tag_name in data['tags']`: the tag table and the tags
\* linked to the task after it, or that the query of a name raised. The
\* query of an iteration sees the rows the iterations before it added to
\* the session.
RECURSIVE attach_tags(_, _, _, _)
attach_tags(tbl, names, user_id, linked) ==
    IF names = <<>> THEN [tags |-> tbl, linked |-> linked, raised |-> FALSE]
    ELSE IF ~bindable(Head(names))
    THEN [tags |-> tbl, linked |-> linked, raised |-> TRUE]
    ELSE LET tag == first_tag(tbl, Head(names), user_id)
             n == new_id(tbl)
         IN  IF tag # None
             THEN attach_tags(tbl, Tail(names), user_id, linked \cup {tag[1]})
             ELSE attach_tags(
                      insert(tbl, n, Tag(Head(names), TagDefaultColor, user_id)),
                      Tail(names), user_id, linked \cup {n})

\* the handler committing what the session holds when it has caught an
\* exception
rollback_committed(committed, session) == session

\* db.session.rollback(): the table is what was committed, whatever the
\* session had added, changed or flushed; the ids it gave are free again
rollback(committed, session) == committed

\* the variables of a running parser call, which no route touches
parser ==
    <<text, reference_date, clock, pc, i, result, tried, failed, applied,
      call, prev>>

\* the requests are answered one at a time, MaxRequests of them
MaxRequests == 3

\* route op takes the next request, made by user_id for the row of id n
\* (0 when the route names none) with the body or query string data
Serve(op, user_id, n, data) ==
    /\ pc = "store"
    /\ requests < MaxRequests
    /\ requests' = requests + 1
    /\ request' = Some([op |-> op, user_id |-> user_id, id |-> n, data |-> data])
    /\ before' = Some([tasks |-> tasks, projects |-> projects, tags |-> tags])
    /\ UNCHANGED <<parser, inflight>>

\* the query strings sent to get_tasks
s_1 == <<"1">>
s_3 == <<"3">>
s_True == <<"T", "r", "u", "e">>
NoArgs == [project_id |-> None, completed |-> None, priority |-> None, tag_id |-> None]
TaskArgs ==
    {[project_id |-> p, completed |-> c, priority |-> q, tag_id |-> t] :
        p \in {None, Some(s_1)}, c \in {None, Some(s_True)},
        q \in {None, Some(s_3)}, t \in {None, Some(s_1)}}
    \cup {[NoArgs EXCEPT !.completed = Some(s_a)],
          [NoArgs EXCEPT !.project_id = Some(s_1), !.completed = Some(s_a)],
          [NoArgs EXCEPT !.priority = Some(s_a)]}

\* str.lower()
str_lower(s) == [k \in 1..Len(s) |-> lower(s[k])]

\* the query of get_tasks with the tag filter matching every task that has
\* a tag
query_tasks_any_tag(user_id, args) ==
    LET q0 == all_of(tasks, user_id)
        q1 == IF truthy(args, "project_id")
              THEN {n \in q0 : /\ tasks[n].project_id # None
                               /\ tasks[n].project_id = int(get(args, "project_id"))}
              ELSE q0
        q2 == IF has(args, "completed")
              THEN {n \in q1 : tasks[n].completed
                                = (str_lower(get(args, "completed")) = str_lower(s_True))}
              ELSE q1
        q3 == IF truthy(args, "priority")
              THEN {n \in q2 : Some(tasks[n].priority) = int(get(args, "priority"))}
              ELSE q2
    IN  IF truthy(args, "tag_id") THEN {n \in q3 : tasks[n].tags # {}} ELSE q3

\* Task.query.filter_by(user_id=user_id) and the filter_by / filter of each
\* argument that is there: the ids of the rows of the query
query_tasks(user_id, args) ==
    LET q0 == all_of(tasks, user_id)
        q1 == IF truthy(args, "project_id")
              THEN {n \in q0 : /\ tasks[n].project_id # None
                               /\ tasks[n].project_id = int(get(args, "project_id"))}
              ELSE q0
        q2 == IF has(args, "completed")
              THEN {n \in q1 : tasks[n].completed
                                = (str_lower(get(args, "completed")) = str_lower(s_True))}
              ELSE q1
        q3 == IF truthy(args, "priority")
              THEN {n \in q2 : Some(tasks[n].priority) = int(get(args, "priority"))}
              ELSE q2
    IN  IF truthy(args, "tag_id")
        THEN {n \in q3 : \E t \in tasks[n].tags : Some(t) = int(get(args, "tag_id"))}
        ELSE q3

\* def get_tasks()
get_tasks(user_id, args) ==
    /\ Serve("get_tasks", user_id, 0, args)
    /\ IF truthy(args, "priority") /\ int(get(args, "priority")) = None
       THEN \* int(priority) raises ValueError: except Exception
            response' = Response(500, "exception")
       ELSE response' = Some([Response(200, "")[1]
                                 EXCEPT !.ids = query_tasks(user_id, args)])
    /\ UNCHANGED store

\* def create_task()
create_task(user_id, data) ==
    /\ Serve("create_task", user_id, 0, data)
    /\ UNCHANGED <<projects>>
    /\ IF empty(data) \/ ~truthy(data, "title")
       THEN /\ response' = Response(400, "Title is required")
            /\ UNCHANGED <<tasks, tags>>
       ELSE \E parsed \in (IF get_or(data, "use_nlp", FALSE)
                           THEN parse_natural_language(get(data, "title"), clock)
                           ELSE {[raised |-> FALSE, result |-> new_result(<<>>),
                                  clock |-> clock]}) :
            LET d == IF get_or(data, "use_nlp", FALSE)
                     THEN data_update(data, parsed.result) ELSE data
                task == Task(get(d, "title"), get_or(d, "description", <<>>),
                             get_or(d, "priority", 1), d.project_id, user_id)
                dated == has(d, "due_date") /\ truthy_date(get(d, "due_date"))
                due == IF dated THEN due_date_value(get(d, "due_date")) ELSE None
                task_id == new_id(tasks)
                att == IF truthy(d, "tags")
                       THEN attach_tags(tags, get(d, "tags"), user_id, {})
                       ELSE [tags |-> tags, linked |-> {}, raised |-> FALSE]
            IN  IF parsed.raised \/ (dated /\ due = None)
                THEN \* raised before db.session.add(task): except Exception
                     /\ response' = Response(500, "exception")
                     /\ tasks' = rollback(tasks, tasks)
                     /\ tags' = rollback(tags, tags)
                ELSE IF att.raised
                THEN \* raised in the loop, the task and the tags before the
                     \* name flushed: except Exception
                     /\ response' = Response(500, "exception")
                     /\ tasks' = rollback(tasks,
                                          insert(tasks, task_id,
                                                 [task EXCEPT !.due_date = due,
                                                              !.tags = att.linked]))
                     /\ tags' = rollback(tags, att.tags)
                ELSE /\ task_id \in TaskIds /\ Cardinality(DOMAIN tasks) < MaxTasks
                     /\ DOMAIN att.tags \subseteq TagIds
                     /\ Cardinality(DOMAIN att.tags) <= MaxTags
                     /\ tasks' = insert(tasks, task_id,
                                        [task EXCEPT !.due_date = due,
                                                     !.tags = att.linked])
                     /\ tags' = att.tags
                     /\ response' = Some([Response(201, "")[1]
                                             EXCEPT !.id = task_id])

\* def get_task(task_id)
get_task(user_id, task_id) ==
    /\ Serve("get_task", user_id, task_id, None)
    /\ UNCHANGED store
    /\ IF first_by_id(tasks, task_id, user_id) = None
       THEN response' = Response(404, "Task not found")
       ELSE response' = Some([Response(200, "")[1]
                                 EXCEPT !.id = task_id])

\* `if key in data: task.key = data[key]` for the five plain fields, every
\* field set, the ones the body does not name to the value of a new task
assign_fields_reset(task, data) ==
    [task EXCEPT !.title = get_or(data, "title", <<>>),
                 !.description = get_or(data, "description", <<>>),
                 !.completed = get_or(data, "completed", FALSE),
                 !.priority = get_or(data, "priority", 1),
                 !.project_id = data.project_id]

\* `if key in data: task.key = data[key]` for the five plain fields
assign_fields(task, data) ==
    [task EXCEPT !.title = get_or(data, "title", @),
                 !.description = get_or(data, "description", @),
                 !.completed = get_or(data, "completed", @),
                 !.priority = get_or(data, "priority", @),
                 !.project_id = IF has(data, "project_id") THEN data.project_id ELSE @]

\* def update_task(task_id)
update_task(user_id, task_id, data) ==
    /\ Serve("update_task", user_id, task_id, data)
    /\ UNCHANGED <<projects>>
    /\ IF first_by_id(tasks, task_id, user_id) = None
       THEN /\ response' = Response(404, "Task not found")
            /\ UNCHANGED <<tasks, tags>>
       ELSE LET task == assign_fields(tasks[task_id], data)
                dated == has(data, "due_date") /\ truthy_date(get(data, "due_date"))
                due == IF dated THEN fromisoformat(replace_Z(get(data, "due_date").str))
                       ELSE None
                att == IF has(data, "tags")
                       THEN attach_tags(tags, get(data, "tags"), user_id, {})
                       ELSE [tags |-> tags, linked |-> task.tags, raised |-> FALSE]
                changed == [task EXCEPT !.due_date = IF has(data, "due_date")
                                                     THEN due ELSE @,
                                        !.tags = att.linked]
            IN  IF dated /\ due = None
                THEN \* raised after the plain fields were assigned: except
                     \* Exception
                     /\ response' = Response(500, "exception")
                     /\ tasks' = rollback(tasks, [tasks EXCEPT ![task_id] = task])
                     /\ tags' = rollback(tags, tags)
                ELSE IF att.raised
                THEN \* raised in the loop, after task.tags.clear()
                     /\ response' = Response(500, "exception")
                     /\ tasks' = rollback(tasks, [tasks EXCEPT ![task_id] = changed])
                     /\ tags' = rollback(tags, att.tags)
                ELSE /\ DOMAIN att.tags \subseteq TagIds
                     /\ Cardinality(DOMAIN att.tags) <= MaxTags
                     /\ tasks' = [tasks EXCEPT ![task_id] = changed]
                     /\ tags' = att.tags
                     /\ response' = Some([Response(200, "")[1]
                                             EXCEPT !.id = task_id])

\* def delete_task(task_id)
delete_task(user_id, task_id) ==
    /\ Serve("delete_task", user_id, task_id, None)
    /\ UNCHANGED <<projects, tags>>
    /\ IF first_by_id(tasks, task_id, user_id) = None
       THEN /\ response' = Response(404, "Task not found")
            /\ UNCHANGED tasks
       ELSE /\ tasks' = delete(tasks, task_id)
            /\ response' = Some([Response(200, "")[1]
                                    EXCEPT !.id = task_id])

\* def parse_task(), answering before it parsed
parse_task_unparsed(data) ==
    {[raised |-> FALSE, result |-> new_result(get(data, "text")), clock |-> clock]}

\* parsed = parse_natural_language(data['text'])
parse_task_parsed(data) == parse_natural_language(get(data, "text"), clock)

\* def parse_task()
parse_task(user_id, data) ==
    /\ Serve("parse_task", user_id, 0, data)
    /\ UNCHANGED store
    /\ IF empty(data) \/ ~truthy(data, "text")
       THEN response' = Response(400, "Text is required")
       ELSE \E parsed \in parse_task_parsed(data) :
               IF parsed.raised
               THEN response' = Response(500, "exception")
               ELSE response' = Some([Response(200, "")[1]
                                         EXCEPT !.parsed = Some(parsed.result)])

\* ----------------------------------------------------------- projects.py

\* def get_projects()
get_projects(user_id) ==
    /\ Serve("get_projects", user_id, 0, None)
    /\ UNCHANGED store
    /\ response' = Some([Response(200, "")[1]
                            EXCEPT !.ids = all_of(projects, user_id)])

\* def create_project()
create_project(user_id, data) ==
    /\ Serve("create_project", user_id, 0, data)
    /\ UNCHANGED <<tasks, tags>>
    /\ IF empty(data) \/ ~truthy(data, "name")
       THEN /\ response' = Response(400, "Name is required")
            /\ UNCHANGED projects
       ELSE LET project_id == new_id(projects)
            IN  /\ project_id \in ProjectIds
                /\ Cardinality(DOMAIN projects) < MaxProjects
                /\ projects' = insert(projects, project_id,
                                   Project(get(data, "name"),
                                           get_or(data, "description", <<>>),
                                           get_or(data, "color", ProjectDefaultColor),
                                           user_id))
                /\ response' = Some([Response(201, "")[1]
                                        EXCEPT !.id = project_id])

\* def get_project(project_id)
get_project(user_id, project_id) ==
    /\ Serve("get_project", user_id, project_id, None)
    /\ UNCHANGED store
    /\ IF first_by_id(projects, project_id, user_id) = None
       THEN response' = Response(404, "Project not found")
       ELSE response' = Some([Response(200, "")[1]
                                 EXCEPT !.id = project_id])

\* def update_project(project_id)
update_project(user_id, project_id, data) ==
    /\ Serve("update_project", user_id, project_id, data)
    /\ UNCHANGED <<tasks, tags>>
    /\ IF first_by_id(projects, project_id, user_id) = None
       THEN /\ response' = Response(404, "Project not found")
            /\ UNCHANGED projects
       ELSE /\ projects' = [projects EXCEPT ![project_id] =
                               [@ EXCEPT !.name = get_or(data, "name", @),
                                         !.description = get_or(data, "description", @),
                                         !.color = get_or(data, "color", @)]]
            /\ response' = Some([Response(200, "")[1]
                                    EXCEPT !.id = project_id])

\* What db.session.delete(project) does to the tasks that refer to the
\* project is decided by the relationship between Project and Task: the
\* tasks are deleted with it, their project_id is set to null, or they are
\* left as they are.
OnProjectDelete == {"delete", "nullify", "keep"}

\* the Task table after the project of id project_id was deleted
tasks_without_project(tbl, project_id, how) ==
    LET refer == {n \in DOMAIN tbl : tbl[n].project_id = Some(project_id)}
    IN  IF how = "delete" THEN [n \in DOMAIN tbl \ refer |-> tbl[n]]
        ELSE IF how = "nullify"
        THEN [n \in DOMAIN tbl |-> IF n \in refer
                                   THEN [tbl[n] EXCEPT !.project_id = None]
                                   ELSE tbl[n]]
        ELSE tbl

\* def delete_project(project_id)
delete_project(user_id, project_id) ==
    /\ Serve("delete_project", user_id, project_id, None)
    /\ UNCHANGED <<tags>>
    /\ IF first_by_id(projects, project_id, user_id) = None
       THEN /\ response' = Response(404, "Project not found")
            /\ UNCHANGED <<projects, tasks>>
       ELSE /\ projects' = delete(projects, project_id)
            /\ \E how \in OnProjectDelete :
                   tasks' = tasks_without_project(tasks, project_id, how)
            /\ response' = Some([Response(200, "")[1]
                                    EXCEPT !.id = project_id])

\* --------------------------------------------------------------- tags.py

\* def get_tags()
get_tags(user_id) ==
    /\ Serve("get_tags", user_id, 0, None)
    /\ UNCHANGED store
    /\ response' = Some([Response(200, "")[1]
                            EXCEPT !.ids = all_of(tags, user_id)])

\* the check for an existing tag, the owner not looked at
existing_tag_of_anyone(name, user_id) ==
    LET found == {n \in DOMAIN tags : tags[n].name = name}
    IN  IF found = {} THEN None
        ELSE Some(CHOOSE n \in found : \A m \in found : n <= m)

\* existing_tag = Tag.query.filter_by(name=data['name'], user_id=user_id).first()
existing_tag(name, user_id) == first_tag(tags, name, user_id)

\* def create_tag()
create_tag(user_id, data) ==
    /\ Serve("create_tag", user_id, 0, data)
    /\ UNCHANGED <<tasks, projects>>
    /\ IF empty(data) \/ ~truthy(data, "name")
       THEN /\ response' = Response(400, "Name is required")
            /\ UNCHANGED tags
       ELSE IF existing_tag(get(data, "name"), user_id) # None
       THEN /\ response' = Response(400, "Tag already exists")
            /\ UNCHANGED tags
       ELSE LET tag_id == new_id(tags)
            IN  /\ tag_id \in TagIds
                /\ Cardinality(DOMAIN tags) < MaxTags
                /\ tags' = insert(tags, tag_id,
                                  Tag(get(data, "name"),
                                      get_or(data, "color", TagDefaultColor),
                                      user_id))
                /\ response' = Some([Response(201, "")[1]
                                        EXCEPT !.id = tag_id])

\* the name check of update_tag without `existing_tag.id != tag_id`
update_tag_name_exists(user_id, tag_id, data) ==
    has(data, "name") /\ existing_tag(get(data, "name"), user_id) # None

\* the name check of update_tag: a tag of the caller other than this one
\* has the name
update_tag_name_taken(user_id, tag_id, data) ==
    has(data, "name")
    /\ existing_tag(get(data, "name"), user_id) \notin {None, Some(tag_id)}

\* def update_tag(tag_id)
update_tag(user_id, tag_id, data) ==
    /\ Serve("update_tag", user_id, tag_id, data)
    /\ UNCHANGED <<tasks, projects>>
    /\ IF first_by_id(tags, tag_id, user_id) = None
       THEN /\ response' = Response(404, "Tag not found")
            /\ UNCHANGED tags
       ELSE IF update_tag_name_taken(user_id, tag_id, data)
       THEN /\ response' = Response(400, "Tag name already exists")
            /\ UNCHANGED tags
       ELSE /\ tags' = [tags EXCEPT ![tag_id] =
                           [@ EXCEPT !.name = get_or(data, "name", @),
                                     !.color = get_or(data, "color", @)]]
            /\ response' = Some([Response(200, "")[1]
                                    EXCEPT !.id = tag_id])

\* def delete_tag(tag_id): the row and its links to tasks go
delete_tag(user_id, tag_id) ==
    /\ Serve("delete_tag", user_id, tag_id, None)
    /\ UNCHANGED <<projects>>
    /\ IF first_by_id(tags, tag_id, user_id) = None
       THEN /\ response' = Response(404, "Tag not found")
            /\ UNCHANGED <<tags, tasks>>
       ELSE /\ tags' = delete(tags, tag_id)
            /\ tasks' = [n \in DOMAIN tasks |->
                            [tasks[n] EXCEPT !.tags = @ \ {tag_id}]]
            /\ response' = Some([Response(200, "")[1]
                                    EXCEPT !.id = tag_id])

\* ------------------------------------------------------- the state machine

\* The database is empty and no request was made.
StoreInit ==
    /\ text = <<>>
    /\ reference_date = StoreDate
    /\ clock = StoreDate
    /\ pc = "store"
    /\ i = 1
    /\ result = new_result(<<>>)
    /\ tried = <<>>
    /\ failed = {}
    /\ applied = 0
    /\ call = 1
    /\ prev = None
    /\ tasks = <<>>
    /\ projects = <<>>
    /\ tags = <<>>
    /\ response = None
    /\ requests = 0
    /\ request = None
    /\ before = None
    /\ inflight = <<>>

TaskRequest ==
    \E user_id \in Users :
        \/ \E args \in TaskArgs : get_tasks(user_id, args)
        \/ \E data \in CreateTaskBodies : create_task(user_id, data)
        \/ \E task_id \in TaskIds : get_task(user_id, task_id)
        \/ \E task_id \in TaskIds : \E data \in UpdateTaskBodies :
               update_task(user_id, task_id, data)
        \/ \E task_id \in TaskIds : delete_task(user_id, task_id)
        \/ \E data \in ParseBodies : parse_task(user_id, data)

ProjectRequest ==
    \E user_id \in Users :
        \/ get_projects(user_id)
        \/ \E data \in ProjectBodies : create_project(user_id, data)
        \/ \E project_id \in ProjectIds : get_project(user_id, project_id)
        \/ \E project_id \in ProjectIds : \E data \in ProjectBodies :
               update_project(user_id, project_id, data)
        \/ \E project_id \in ProjectIds : delete_project(user_id, project_id)

TagRequest ==
    \E user_id \in Users :
        \/ get_tags(user_id)
        \/ \E data \in TagBodies : create_tag(user_id, data)
        \/ \E tag_id \in TagIds : \E data \in TagBodies :
               update_tag(user_id, tag_id, data)
        \/ \E tag_id \in TagIds : delete_tag(user_id, tag_id)

StoreNext == TaskRequest \/ ProjectRequest \/ TagRequest

StoreSpec == StoreInit /\ [][StoreNext]_vars

\* ------------------------------------------------- vocabulary of the claims

\* the last request, its answer and the database it was made on
Request == request[1]
Answer == response[1]
Before == before[1]

\* the last request was to route op and was answered with this status
Answered(op, status) ==
    request # None /\ Request.op = op /\ Answer.status = status

\* the names of the tags a task row is linked with, in the tag table tbl
TagNames(task, tbl) == {tbl[n].name : n \in task.tags}

\* the elements of a list
Elements(list) == {list[k] : k \in 1..Len(list)}

\* the due date a caller asks for in a body
CallerDueDate(data) ==
    IF has(data, "due_date") /\ get(data, "due_date").str # <<>>
    THEN fromisoformat(get(data, "due_date").str) ELSE None

\* the tag names a caller asks for in a body
CallerTags(data) == IF has(data, "tags") THEN Elements(get(data, "tags")) ELSE {}

\* the task stored has the values of the parse result r where r has them
\* and those of the body otherwise
MergedFrom(task, tbl, data, r) ==
    /\ task.title = r.title
    /\ task.priority = IF r.priority # None THEN r.priority[1]
                       ELSE get_or(data, "priority", 1)
    /\ task.due_date = IF r.due_date # None THEN r.due_date ELSE CallerDueDate(data)
    /\ TagNames(task, tbl) = IF r.tags # None THEN Elements(r.tags[1])
                             ELSE CallerTags(data)

\* the task stored has the values of the body, nothing extracted
StoredVerbatim(task, tbl, data) ==
    /\ task.title = get(data, "title")
    /\ task.priority = get_or(data, "priority", 1)
    /\ task.due_date = CallerDueDate(data)
    /\ TagNames(task, tbl) = CallerTags(data)

\* ------------------------------------------------ claims about the routes

\* C12: a create_task request that stores a task stores, with use_nlp, the
\* title of the parse result of the title sent, and as priority, due date
\* and tags the values of the parse result where it has them and the
\* caller's otherwise, the priority being 1 when neither has one; without
\* use_nlp it stores the title and the caller's values as sent.
C12_CreateTaskMergesParse ==
    Answered("create_task", 201)
    => LET task == tasks[Answer.id]
           data == Request.data
       IN  IF get_or(data, "use_nlp", FALSE)
           THEN \E p \in parse_natural_language(get(data, "title"), clock) :
                    MergedFrom(task, tags, data, p.result)
           ELSE StoredVerbatim(task, tags, data)

\* C12's case: a task was created with use_nlp from a body that has a
\* priority, a due date and tags of its own, and the parse result has a
\* priority, a due date and a tag too.
C12_Witness ==
    /\ Answered("create_task", 201)
    /\ Request.data = [AllTaskKeys EXCEPT !.title = Some(s_nlp),
                                          !.use_nlp = Some(TRUE)]
    /\ tasks[Answer.id].priority = 2
    /\ tasks[Answer.id].title = s_a
    /\ TagNames(tasks[Answer.id], tags) = {s_B}

\* the database is as it was before the last request
StoreUnchanged ==
    /\ tasks = Before.tasks
    /\ projects = Before.projects
    /\ tags = Before.tags

\* C13: after a parse_task request, whatever its text and its answer, the
\* tasks, tags and projects are what they were before it; an answer 200
\* carries the result of parse_natural_language for the text, as returned.
C13_ParseTaskOnlyPreviews ==
    (request # None /\ Request.op = "parse_task")
    => /\ StoreUnchanged
       /\ Answer.status = 200
          => \E p \in parse_natural_language(get(Request.data, "text"), clock) :
                 Answer.parsed = Some(p.result)

\* C13's case: parse_task has answered 200 for a text with a date phrase, a
\* hashtag and a priority marker while the database held a task and a tag.
C13_Witness ==
    /\ Answered("parse_task", 200)
    /\ Request.data.text = Some(s_nlp)
    /\ Answer.parsed[1].tags = Some(<<s_B>>)
    /\ DOMAIN tasks # {}
    /\ DOMAIN tags # {}

\* the rows of a table that user_id owns
Owned(table, user_id) == {n \in DOMAIN table : table[n].user_id = user_id}

\* the answer to a request for a row that is not there
NotFound(what) ==
    [status |-> 404, error |-> what \o " not found", id |-> 0, ids |-> {},
     parsed |-> None]

\* C14: a list route answers with exactly the rows of the caller (get_tasks
\* with filters: with rows of the caller only), and get_task and get_project
\* answer a request for another user's row with the same 404 as a request
\* for a row that does not exist, and a request for an own row with 200.
C14_ReadIsolation ==
    request # None
    => LET u == Request.user_id
       IN  /\ Request.op = "get_tasks"
              => /\ Answer.ids \subseteq Owned(tasks, u)
                 /\ Request.data = NoArgs => Answer.ids = Owned(tasks, u)
           /\ Request.op = "get_projects" => Answer.ids = Owned(projects, u)
           /\ Request.op = "get_tags" => Answer.ids = Owned(tags, u)
           /\ Request.op = "get_task"
              => IF Request.id \in Owned(tasks, u) THEN Answer.status = 200
                 ELSE Answer = NotFound("Task")
           /\ Request.op = "get_project"
              => IF Request.id \in Owned(projects, u) THEN Answer.status = 200
                 ELSE Answer = NotFound("Project")

\* C14's case: two users own a task each and one of them has listed the
\* tasks.
C14_Witness ==
    /\ Answered("get_tasks", 200)
    /\ Request.data = NoArgs
    /\ Answer.ids # {}
    /\ \E n \in DOMAIN tasks : tasks[n].user_id # Request.user_id

\* the routes that change or remove the row they name, with their table
\* and what they call its rows
WriteRoutes ==
    {<<"update_task", "tasks", "Task">>, <<"delete_task", "tasks", "Task">>,
     <<"update_project", "projects", "Project">>,
     <<"delete_project", "projects", "Project">>,
     <<"update_tag", "tags", "Tag">>, <<"delete_tag", "tags", "Tag">>}

\* the database now, by table name
Now == [tasks |-> tasks, projects |-> projects, tags |-> tags]

\* every row that user_id did not own before the last request is as it was
OthersRowsKept(user_id) ==
    \A t \in DOMAIN Now : \A n \in DOMAIN Before[t] :
        Before[t][n].user_id # user_id
        => n \in DOMAIN Now[t] /\ Now[t][n] = Before[t][n]

\* C15: an update or delete request for a task, project or tag of another
\* user is answered 404 and leaves the database as it was; and whatever a
\* user requests, every task, project and tag the user does not own is
\* afterwards still there and unchanged.
C15_WriteIsolation ==
    request # None
    => /\ \A r \in WriteRoutes :
              (/\ Request.op = r[1]
               /\ Request.id \in DOMAIN Before[r[2]]
               /\ Before[r[2]][Request.id].user_id # Request.user_id)
              => Answer = NotFound(r[3]) /\ StoreUnchanged
       /\ OthersRowsKept(Request.user_id)

\* the tags of user_id that had this name before the last request
HadTag(name, user_id) ==
    {n \in DOMAIN Before.tags : /\ Before.tags[n].name = name
                                /\ Before.tags[n].user_id = user_id}

\* C16: create_tag with a name that one of the caller's tags has is answered
\* 400 'Tag already exists' and leaves the database as it was; with a name
\* that none of the caller's tags has it is answered 201 and adds the tag,
\* also when a tag of another user has that name.
C16_TagNameTakenPerUser ==
    (/\ request # None /\ Request.op = "create_tag"
     /\ truthy(Request.data, "name"))
    => LET name == get(Request.data, "name")
           u == Request.user_id
       IN  IF HadTag(name, u) # {}
           THEN /\ Answer.status = 400
                /\ Answer.error = "Tag already exists"
                /\ StoreUnchanged
           ELSE /\ Answer.status = 201
                /\ Answer.id \notin DOMAIN Before.tags
                /\ DOMAIN tags = DOMAIN Before.tags \cup {Answer.id}
                /\ tags[Answer.id].name = name
                /\ tags[Answer.id].user_id = u

\* C16's case: two users have a tag of the same name, and the second
\* request of one of them to create it was refused.
C16_Witness ==
    /\ Answered("create_tag", 400)
    /\ Answer.error = "Tag already exists"
    /\ \E n, m \in DOMAIN tags :
           /\ tags[n].name = tags[m].name
           /\ tags[n].user_id # tags[m].user_id

\* C17: update_tag with a name that another tag of the caller has is
\* answered 400 'Tag name already exists' and leaves name, colour and the
\* rest of the database as they were, whether or not the body has a colour;
\* with any other name, the tag's own current name included, it is answered
\* 200 and the tag has the name.
C17_RenameToTakenName ==
    (/\ request # None /\ Request.op = "update_tag"
     /\ Request.id \in Owned(Before.tags, Request.user_id)
     /\ has(Request.data, "name"))
    => LET name == get(Request.data, "name")
       IN  IF HadTag(name, Request.user_id) \ {Request.id} # {}
           THEN /\ Answer.status = 400
                /\ Answer.error = "Tag name already exists"
                /\ StoreUnchanged
           ELSE /\ Answer.status = 200
                /\ tags[Request.id].name = name

\* C17's case: a rename to the name of another tag of the caller, sent with
\* a colour, was refused.
C17_Witness ==
    /\ Answered("update_tag", 400)
    /\ has(Request.data, "color")
    /\ tags[Request.id].color # get(Request.data, "color")

\* the create routes and parse_task, with the key they require and what
\* they call it
RequiredKeys ==
    {<<"create_task", "title", "Title">>, <<"create_project", "name", "Name">>,
     <<"create_tag", "name", "Name">>, <<"parse_task", "text", "Text">>}

\* C18: a request to create_task, create_project, create_tag or parse_task
\* whose required key is missing or an empty string is answered 400 with
\* '<Key> is required' and leaves the database as it was.
C18_RequiredFieldMissing ==
    request # None
    => \A r \in RequiredKeys :
           (/\ Request.op = r[1]
            /\ ~has(Request.data, r[2]) \/ get(Request.data, r[2]) = <<>>)
           => /\ Answer.status = 400
              /\ Answer.error = r[3] \o " is required"
              /\ StoreUnchanged

\* C18's case: create_task was sent an empty title together with a
\* description, a priority, a due date and tags, and has answered.
C18_Witness ==
    /\ request # None
    /\ Request.op = "create_task"
    /\ Request.data = [AllTaskKeys EXCEPT !.title = Some(<<>>)]
    /\ Answer.status = 400

\* the fields of keys that data does not name are in row what they were in old
FieldsKept(row, old, data, keys) ==
    \A f \in keys : ~has(data, f) => row[f] = old[f]

\* every row of table but the one of the request is what it was
OtherRowsKept(table, old) ==
    /\ DOMAIN table = DOMAIN old
    /\ \A n \in DOMAIN old \ {Request.id} : table[n] = old[n]

\* C19: an update that was answered 200 has changed, in the row it names,
\* no field that its body does not name: update_task keeps each of title,
\* description, completed, priority, project_id and due_date, and without a
\* 'tags' key the links of the task and the tags of the database;
\* update_project keeps each of name, description and color; update_tag
\* each of name and color. The owner of the row, the other rows of the
\* table and the other tables are kept too.
C19_PartialUpdate ==
    /\ Answered("update_task", 200)
       => /\ FieldsKept(tasks[Request.id], Before.tasks[Request.id], Request.data,
                        {"title", "description", "completed", "priority",
                         "project_id", "due_date", "tags"})
          /\ tasks[Request.id].user_id = Before.tasks[Request.id].user_id
          /\ OtherRowsKept(tasks, Before.tasks)
          /\ projects = Before.projects
          /\ ~has(Request.data, "tags") => tags = Before.tags
    /\ Answered("update_project", 200)
       => /\ FieldsKept(projects[Request.id], Before.projects[Request.id],
                        Request.data, {"name", "description", "color"})
          /\ projects[Request.id].user_id = Before.projects[Request.id].user_id
          /\ OtherRowsKept(projects, Before.projects)
          /\ tasks = Before.tasks /\ tags = Before.tags
    /\ Answered("update_tag", 200)
       => /\ FieldsKept(tags[Request.id], Before.tags[Request.id],
                        Request.data, {"name", "color"})
          /\ tags[Request.id].user_id = Before.tags[Request.id].user_id
          /\ OtherRowsKept(tags, Before.tags)
          /\ tasks = Before.tasks /\ projects = Before.projects

\* C19's case: a task that had a description, a priority, a project, a due
\* date and two tags was given a new title and nothing else.
C19_Witness ==
    /\ Answered("update_task", 200)
    /\ Request.data = [NoTaskKeys EXCEPT !.title = Some(s_c)]
    /\ tasks[Request.id].title = s_c
    /\ Before.tasks[Request.id].title # s_c
    /\ tasks[Request.id].description = s_d
    /\ tasks[Request.id].priority = 3
    /\ tasks[Request.id].due_date # None
    /\ Cardinality(tasks[Request.id].tags) = 2

\* the request gave create_task or update_task a list of tag names that
\* the route has attached: create_task without use_nlp and with a list
\* that is not empty, update_task with any list
TagsListed ==
    \/ /\ Answered("create_task", 201)
       /\ ~has(Request.data, "use_nlp")
       /\ truthy(Request.data, "tags")
    \/ /\ Answered("update_task", 200)
       /\ has(Request.data, "tags")

C20_WitnessTwice ==
    /\ Answered("create_task", 201)
    /\ Request.data.tags = Some(<<s_c, s_c>>)
    /\ Before.tags = <<>>

\* the number that a filter value of the requests writes
ArgNumber(s) == CASE s = s_1 -> 1 [] s = s_3 -> 3 [] OTHER -> 0

\* the filter values of the requests that write a number
ArgNumbers == {s_1, s_3}

\* the task satisfies every filter that args supplies
Satisfies(task, args) ==
    /\ has(args, "project_id")
       => task.project_id = Some(ArgNumber(get(args, "project_id")))
    /\ has(args, "completed")
       => (task.completed <=> get(args, "completed") \in {s_True, <<"t", "r", "u", "e">>})
    /\ has(args, "priority") => task.priority = ArgNumber(get(args, "priority"))
    /\ has(args, "tag_id") => ArgNumber(get(args, "tag_id")) \in task.tags

\* C21: get_tasks, with any of the filters project_id, completed, priority
\* and tag_id supplied and every number among them written in digits, is
\* answered 200 with exactly the tasks of the caller that satisfy every
\* filter supplied; completed=true keeps the completed tasks only.
C21_FiltersAreExact ==
    (/\ request # None /\ Request.op = "get_tasks"
     /\ has(Request.data, "priority") => get(Request.data, "priority") \in ArgNumbers)
    => /\ Answer.status = 200
       /\ Answer.ids = {n \in Owned(tasks, Request.user_id) :
                           Satisfies(tasks[n], Request.data)}

\* C21's case: of two tasks of the caller, a request with two filters or
\* more was answered with one and without the other.
C21_Witness ==
    /\ Answered("get_tasks", 200)
    /\ has(Request.data, "priority") /\ has(Request.data, "tag_id")
    /\ Answer.ids # {}
    /\ Owned(tasks, Request.user_id) \ Answer.ids # {}

\* C21's case for completed=True: the caller's completed task was returned.
C21_WitnessCompleted ==
    /\ Answered("get_tasks", 200)
    /\ Request.data = [NoArgs EXCEPT !.completed = Some(s_True)]
    /\ Answer.ids # {}

\* ------------------------------------------------- get_next_weekday alone

\* the names get_next_weekday is called with: the seven of `days`, and one
\* of them with a capital
DayNames == {days[k] : k \in 1..Len(days)} \cup {<<"F", "r", "i", "d", "a", "y">>}

\* the dates of the calls: every day of a February of 29 days, of a month
\* of 31 days and of the last month of a year
WeekdayDates ==
    {[year |-> 2024, month |-> m, day |-> d] :
        m \in {2, 3, 12}, d \in 1..31} \ {[year |-> 2024, month |-> 2, day |-> d] : d \in {30, 31}}

\* before a call of get_next_weekday(text), the clock last known at `clock`
WeekdayInit ==
    /\ text \in DayNames
    /\ clock \in WeekdayDates
    /\ reference_date = clock
    /\ pc = "weekday"
    /\ i = 1
    /\ result = new_result(<<>>)
    /\ tried = <<>>
    /\ failed = {}
    /\ applied = 0
    /\ call = 1
    /\ prev = None
    /\ tasks = <<>>
    /\ projects = <<>>
    /\ tags = <<>>
    /\ response = None
    /\ requests = 0
    /\ request = None
    /\ before = None
    /\ inflight = <<>>

\* the call: `response` takes what it returned or that it raised
CallNextWeekday ==
    /\ pc = "weekday"
    /\ \E r \in get_next_weekday(text, clock) :
           /\ response' = Some(r)
           /\ clock' = r.clock
    /\ pc' = "returned"
    /\ UNCHANGED <<text, reference_date, i, result, tried, failed, applied, call,
                   prev, store, requests, request, before, inflight>>

WeekdaySpec == WeekdayInit /\ [][CallNextWeekday]_vars

\* what the call gave, and the date it read as today
Outcome == response[1]

\* C22: get_next_weekday returns, whatever the date it reads as today and
\* whatever the weekday named, a date of that weekday 1 to 7 days after
\* today, and 7 days after today when today is that weekday; also when
\* that date is in the next month.
C22_NextWeekdayInSevenDays ==
    pc = "returned"
    => LET today == Outcome.clock
           ahead == toordinal(Outcome.date) - toordinal(today)
       IN  /\ ~Outcome.raised
           /\ weekday(Outcome.date) = days_index(text)
           /\ 1 <= ahead /\ ahead <= 7
           /\ weekday(today) = days_index(text) => ahead = 7

\* the part of C22 that the code keeps: a call that returns, returns the
\* date C22 describes
C22_WhenItReturns ==
    (pc = "returned" /\ ~Outcome.raised)
    => LET today == Outcome.clock
           ahead == toordinal(Outcome.date) - toordinal(today)
       IN  /\ weekday(Outcome.date) = days_index(text)
           /\ 1 <= ahead /\ ahead <= 7
           /\ weekday(today) = days_index(text) => ahead = 7

\* every call whose date is in the next month raises, and no other does
C22_RaisesAtMonthEnd ==
    pc = "returned"
    => LET today == Outcome.clock
           diff == days_index(text) - weekday(today)
           days_ahead == IF diff <= 0 THEN diff + 7 ELSE diff
       IN  Outcome.raised <=> today.day + days_ahead > DaysInMonth(today.year, today.month)

\* --------------------------------------------- the stages of the parser

\* the places of s where the phrase of date rule k stands as a whole word
PhrasePlaces(k, s) ==
    {n \in 1..Len(s) : \E a \in 1..Len(date_patterns[k].pattern) :
                           WholeWordAt(date_patterns[k].pattern[a], s, n)}

\* C23: when a date rule was applied to a text in which its phrase stands
\* twice or more, the title that the date stage leaves still holds the
\* phrase: one occurrence was removed, not the others.
C23_OneOccurrenceRemoved ==
    (/\ pc = "tags" /\ applied # 0
     /\ Cardinality(PhrasePlaces(applied, text)) >= 2)
    => HasPhrase(applied, result.title)

\* what the code does instead: the title the date stage leaves holds the
\* phrase of the applied rule nowhere
C23_EveryOccurrenceRemoved ==
    (pc = "tags" /\ applied # 0) => ~HasPhrase(applied, result.title)

\* the text as the date stage leaves it: without the phrase of the applied
\* rule, trimmed
DateStageText ==
    IF applied = 0 THEN strip(text)
    ELSE strip(re_sub(date_patterns[applied].pattern, text))

\* the text as the tag stage leaves it: the text of the date stage without
\* its hashtags, trimmed
TagStageText == strip(re_sub_tags(DateStageText))

\* C24: tags is the list of the hashtags of the text that the date stage
\* left, and absent when that text has none; a '#' whose word was removed as
\* a date phrase gives no tag.
C24_TagsFromDateStageText ==
    pc \in {"priority", "done"} => result.tags = MarkedTags(DateStageText)

\* C25: priority is 3 when the text left by the date and the tag stage
\* holds '!!!', 2 when it holds '!!' and no '!!!', and absent otherwise;
\* marks that stand side by side only once a tag or a date phrase between
\* them is removed count.
C25_PriorityFromTagStageText ==
    pc = "done" => result.priority = MarkedPriority(TagStageText)

\* the tags of tbl are told apart by owner and name
UniqueNames(tbl) ==
    \A n, m \in DOMAIN tbl :
        (n # m /\ tbl[n].user_id = tbl[m].user_id) => tbl[n].name # tbl[m].name

\* C26: whatever requests were answered, one after the other, no two tags
\* of the database have the same owner and the same name.
C26_TagNamesUniquePerUser == pc = "store" => UniqueNames(tags)

\* C26's case: a task was created with a new name listed twice by a user
\* who had another tag, and the user has two tags.
C26_Witness ==
    /\ Answered("create_task", 201)
    /\ Request.data.tags = Some(<<s_c, s_c>>)
    /\ Owned(Before.tags, Request.user_id) # {}
    /\ Cardinality(Owned(tags, Request.user_id)) = 2

\* every tag linked to a task of the database is a tag of the task's owner
LinkedTagsOwned ==
    \A t \in DOMAIN tasks : \A n \in tasks[t].tags :
        n \in DOMAIN tags /\ tags[n].user_id = tasks[t].user_id

\* every task whose project_id is the id of a project is a task of the
\* project's owner
ProjectsOwned ==
    \A t \in DOMAIN tasks :
        (tasks[t].project_id # None /\ tasks[t].project_id[1] \in DOMAIN projects)
        => projects[tasks[t].project_id[1]].user_id = tasks[t].user_id

\* C28: whatever requests were answered, every task that names a project
\* names a project of its own user, and every tag linked to a task is a tag
\* of the task's user.
C28_TaskRefersToOwnRows == pc = "store" => (ProjectsOwned /\ LinkedTagsOwned)

\* the part of C28 that the code keeps: the tags linked to a task are tags
\* of its owner
C28_LinkedTagsAreOwned == pc = "store" => LinkedTagsOwned

\* the routes of C29: those that add to the tasks and tags or change them,
\* and those that delete
ChangingRoutes ==
    {"create_task", "update_task", "create_tag", "update_tag",
     "delete_task", "delete_project", "delete_tag"}

\* C29: when create_task, update_task, create_tag, update_tag or a delete
\* route has answered 400, 404 or 500, the database is what it was before
\* the request: no task and no tag was added, no row was changed.
C29_ErrorLeavesStoreAsBefore ==
    (/\ request # None /\ Request.op \in ChangingRoutes
     /\ Answer.status \in {400, 404, 500})
    => StoreUnchanged

\* C29's case: create_task raised in the loop over the tags, after it had
\* flushed the task and added a tag.
C29_Witness ==
    /\ Answered("create_task", 500)
    /\ Request.data.tags = Some(<<s_c, l_empty>>)

\* C29's case for update_task: the due date raised after a title was
\* assigned.
C29_WitnessUpdate ==
    /\ Answered("update_task", 500)
    /\ has(Request.data, "title")
    /\ Request.id \in Owned(tasks, Request.user_id)

\* C30: a task that create_task has stored and answered 201 for has a title
\* that is not empty, with and without use_nlp.
C30_StoredTitleNotEmpty ==
    Answered("create_task", 201) => tasks[Answer.id].title # <<>>

\* the part of C30 that the code keeps: without use_nlp the stored title is
\* the title of the body, which is not empty
C30_WithoutParsing ==
    (Answered("create_task", 201) /\ ~has(Request.data, "use_nlp"))
    => /\ tasks[Answer.id].title = get(Request.data, "title")
       /\ tasks[Answer.id].title # <<>>

\* --------------------------------------- two requests served at one time

\* the two requests, each served by a worker of its own with a session and
\* a transaction of its own
Workers == {1, 2}

\* the user both requests are made by
RaceUser == 1

\* the routes of the two requests: each names the tag s_c, create_tag as
\* data['name'], create_task and update_task as the one name of data['tags']
RaceOps == {"create_tag", "create_task", "update_task"}

\* what the commit of a tag does when a tag of that owner and name was
\* committed since the worker looked: the database refuses the row, or it
\* stores it
OnDuplicateTag == {"raise", "store"}

\* the task that update_task is asked to change
RaceTask == Task(s_a, <<>>, 1, None, RaceUser)

\* the tags there may be before the two requests: none, another tag of the
\* user, a tag of the name owned by another user
RaceTags ==
    {<<>>,
     <<Tag(s_B, TagDefaultColor, RaceUser)>>,
     <<Tag(s_c, TagDefaultColor, 2)>>}

\* a worker about to run the query for the tag
Arrived(op) == [op |-> op, at |-> "check", found |-> None, status |-> 0,
                duplicate |-> FALSE]

RaceInit ==
    /\ text = <<>>
    /\ reference_date = StoreDate
    /\ clock = StoreDate
    /\ pc = "race"
    /\ i = 1
    /\ result = new_result(<<>>)
    /\ tried = <<>>
    /\ failed = {}
    /\ applied = 0
    /\ call = 1
    /\ prev = None
    /\ tasks = <<RaceTask>>
    /\ projects = <<>>
    /\ tags \in RaceTags
    /\ response = None
    /\ requests = 0
    /\ request = None
    /\ before = None
    /\ inflight \in [Workers -> {Arrived(op) : op \in RaceOps}]

\* Tag.query.filter_by(name=..., user_id=user_id).first() in a worker: it
\* sees the rows committed so far. create_tag answers 400 when there is
\* one; the task routes keep it for the link.
Check(w) ==
    /\ pc = "race"
    /\ inflight[w].at = "check"
    /\ LET tag == first_tag(tags, s_c, RaceUser)
       IN  inflight' =
               [inflight EXCEPT ![w] =
                   IF @.op = "create_tag" /\ tag # None
                   THEN [@ EXCEPT !.at = "done", !.status = 400]
                   ELSE [@ EXCEPT !.at = "commit", !.found = tag]]
    /\ UNCHANGED <<parser, store, response, requests, request, before>>

\* the rows of a worker that commits: the tag it found or a new one, and
\* for the task routes the task linked to it
Committed(w, tbl) ==
    LET me == inflight[w]
        n == IF me.found # None THEN me.found[1] ELSE new_id(tbl)
        tagged == IF me.found # None THEN tbl
                  ELSE insert(tbl, n, Tag(s_c, TagDefaultColor, RaceUser))
    IN  [tags |-> tagged,
         tasks |-> IF me.op = "create_task"
                   THEN insert(tasks, new_id(tasks),
                               [RaceTask EXCEPT !.tags = {n}])
                   ELSE IF me.op = "update_task"
                   THEN [tasks EXCEPT ![1].tags = {n}]
                   ELSE tasks,
         status |-> IF me.op = "update_task" THEN 200 ELSE 201]

\* db.session.add(tag) and db.session.commit() in a worker that found no
\* tag, or the commit of the link to the tag it found. When the other
\* worker has committed a tag of the name in between, the commit raises and
\* the handler rolls back and answers 500, or the row is stored.
Commit(w) ==
    /\ pc = "race"
    /\ inflight[w].at = "commit"
    /\ LET late == inflight[w].found = None
                   /\ first_tag(tags, s_c, RaceUser) # None
           done == Committed(w, tags)
       IN  \E how \in OnDuplicateTag :
               IF late /\ how = "raise"
               THEN /\ inflight' = [inflight EXCEPT ![w].at = "done",
                                                    ![w].status = 500]
                    /\ UNCHANGED store
               ELSE /\ inflight' = [inflight EXCEPT ![w].at = "done",
                                                    ![w].status = done.status,
                                                    ![w].duplicate = late]
                    /\ tags' = done.tags
                    /\ tasks' = done.tasks
                    /\ UNCHANGED projects
    /\ UNCHANGED <<parser, response, requests, request, before>>

RaceNext == \E w \in Workers : Check(w) \/ Commit(w)

RaceSpec == RaceInit /\ [][RaceNext]_vars

\* C27: however the two requests of the user interleave, the database
\* never holds two tags of the user with the name, and two create_tag
\* requests are never both answered 201.
C27_UniqueUnderConcurrency ==
    pc = "race"
    => /\ UniqueNames(tags)
       /\ ~ \A w \in Workers : inflight[w].op = "create_tag" /\ inflight[w].status = 201

\* C27 where the database refuses the second row: as long as no commit has
\* stored a tag beside one of its name, the claim holds
C27_WhenDuplicatesAreRefused ==
    (pc = "race" /\ \A w \in Workers : ~inflight[w].duplicate)
    => /\ UniqueNames(tags)
       /\ ~ \A w \in Workers : inflight[w].op = "create_tag" /\ inflight[w].status = 201

====
